---- MODULE Spec2Model ----
(***************************************************************************)
(* Batch assembly and sampling-index resolution of NeuronModelRunner       *)
(* (vllm/worker/neuron_model_runner.py).                                   *)
(*                                                                         *)
(* Python values are modelled as follows.  A list is a sequence; an        *)
(* Optional value is a sequence of length at most one (None is << >>,      *)
(* a present value v is <<v>>); a dict with insertion-ordered keys is a    *)
(* sequence of entries.  Indices STORED in lists keep Python's 0-based     *)
(* values; positions of TLA+ sequences are 1-based.                        *)
(***************************************************************************)
EXTENDS Integers, Sequences, FiniteSets, TLC

\* ------------------------------------------------------------------ bounds
MaxLen == 5
MaxDecodeLen == 3
MaxSeqs == 2
MaxGen == 2
VocabSize == 3

RequestIds == {1, 2}

\* ------------------------------------------------------- Python primitives
None == << >>

Some(v) == <<v>>

RECURSIVE MaxOf(_)
MaxOf(s) ==
    IF Len(s) = 1 THEN s[1]
    ELSE LET m == MaxOf(Tail(s)) IN IF s[1] >= m THEN s[1] ELSE m

MinOf2(a, b) == IF a <= b THEN a ELSE b

\* range(a, b)
Range(a, b) == IF b > a THEN [k \in 1..(b - a) |-> a + k - 1] ELSE << >>

\* [pad] * k
Repeat(v, k) == IF k > 0 THEN [j \in 1..k |-> v] ELSE << >>

AssertionError == [raised |-> TRUE, error |-> "AssertionError"]

IndexError == [raised |-> TRUE, error |-> "IndexError"]

\* --------------------------------------------------- collaborators' types
SamplingType == <<"GREEDY", "RANDOM", "RANDOM_SEED", "BEAM">>

SamplingTypes == {SamplingType[k] : k \in 1..Len(SamplingType)}

\* SamplingParams as far as the runner reads it: the strategy tag, the
\* optional seed, the optional prompt_logprobs.  The tag is RANDOM_SEED
\* exactly for a stochastic request with a seed; a greedy request may carry
\* a seed it does not use.
SamplingParamsSet ==
    { [sampling_type |-> t, seed |-> s, prompt_logprobs |-> p] :
        t \in {"GREEDY", "RANDOM", "RANDOM_SEED"},
        s \in {None, Some(42)},
        p \in {None, Some(1)} }

ValidSamplingParams ==
    { sp \in SamplingParamsSet :
        /\ (sp.sampling_type = "RANDOM_SEED") => (sp.seed # None)
        /\ (sp.sampling_type = "RANDOM") => (sp.seed = None) }

\* SequenceData of sequence j of request r holding len tokens.
SeqId(r, j) == 10 * r + j

TokenId(r, j, p) == (r + j + p) % VocabSize

SequenceData(r, j, len) ==
    [seq_id |-> SeqId(r, j),
     token_ids |-> [p \in 1..len |-> TokenId(r, j, p)]]

get_token_ids(seq_data) == seq_data.token_ids

get_last_token_id(seq_data) == seq_data.token_ids[Len(seq_data.token_ids)]

get_len(seq_data) == Len(seq_data.token_ids)

\* The block table the allocator hands out: nblocks blocks for sequence j of
\* request r (the scheduler contract is nblocks = 1).
BlockTable(r, j, nblocks) ==
    IF nblocks > 0 THEN [b \in 1..nblocks |-> 100 * r + 10 * j + b] ELSE << >>

\* SequenceGroupMetadata of request r: nseqs sequences of len tokens each,
\* every sequence with nblocks blocks; blocks = None models block_tables=None.
SequenceGroupMetadata(r, is_prompt, nseqs, len, blocks, sp) ==
    [request_id |-> r,
     is_prompt |-> is_prompt,
     seq_data |-> IF nseqs > 0
                  THEN [j \in 1..nseqs |-> SequenceData(r, j, len)]
                  ELSE << >>,
     sampling_params |-> sp,
     block_tables |->
        IF blocks = None THEN None
        ELSE Some(IF nseqs > 0
                  THEN [j \in 1..nseqs |-> BlockTable(r, j, blocks[1])]
                  ELSE << >>)]

\* ------------------------------------------------------------------ state
VARIABLES
    sliding_window,   \* self.sliding_window, read once at construction
    sampling_params,  \* request id -> the request's SamplingParams
    generator,        \* request id -> seq_group_metadata.state.generator
    call,             \* the invocation in progress and its arguments
    result            \* what that invocation produced

vars == <<sliding_window, sampling_params, generator, call, result>>

Idle == [fn |-> "idle"]

NoResult == [status |-> "none"]

\* ------------------------------------------------------- module functions
\* Mutation: the padding is put in front of the row.
_pad_to_max_Left(x, max_len, pad) ==
    IF ~(Len(x) <= max_len) THEN AssertionError
    ELSE [raised |-> FALSE, value |-> Repeat(pad, max_len - Len(x)) \o x]

\* _pad_to_max(x, max_len, pad)
_pad_to_max(x, max_len, pad) ==
    IF ~(Len(x) <= max_len) THEN AssertionError
    ELSE [raised |-> FALSE, value |-> x \o Repeat(pad, max_len - Len(x))]

\* _make_tensor_with_pad(x, max_len, pad, ...): the list of padded rows
_make_tensor_with_pad(x, max_len, pad) ==
    LET padded_x == [i \in 1..Len(x) |-> _pad_to_max(x[i], max_len, pad)]
    IN  IF \E i \in 1..Len(x) : padded_x[i].raised THEN AssertionError
        ELSE [raised |-> FALSE,
              value |-> [i \in 1..Len(x) |-> padded_x[i].value]]

\* _async_h2d(data, ...): a tensor holding the elements of data, in order
_async_h2d(data) == [i \in 1..Len(data) |-> data[i]]

\* Mutation: any non-empty block table passes and its first block is used.
SingleBlock_AtLeastOne(block_table) == Len(block_table) >= 1

\* assert len(block_table) == 1 (lines 92 and 145)
SingleBlock(block_table) == Len(block_table) = 1

\* ---------------------------------------------------------- _prepare_prompt
\* One iteration of the loop over seq_group_metadata_list (lines 69-93).
PromptStep(acc, m) ==
    IF acc.raised THEN acc
    ELSE IF ~m.is_prompt THEN AssertionError
    ELSE IF ~(Len(m.seq_data) = 1) THEN AssertionError
    ELSE
      LET seq_data == m.seq_data[1]
          prompt_tokens == get_token_ids(seq_data)
          prompt_len == Len(prompt_tokens)
          computed_len == 0
      IN  IF m.block_tables = None THEN AssertionError
          ELSE LET block_table == m.block_tables[1][1]
               IN  IF ~SingleBlock(block_table) THEN AssertionError
                   ELSE [raised |-> FALSE,
                         input_tokens |-> Append(acc.input_tokens, prompt_tokens),
                         input_positions |->
                            Append(acc.input_positions,
                                   Range(computed_len,
                                         computed_len + Len(prompt_tokens))),
                         input_block_ids |->
                            Append(acc.input_block_ids, block_table[1]),
                         prompt_lens |-> Append(acc.prompt_lens, prompt_len),
                         context_lens |-> Append(acc.context_lens, computed_len),
                         subquery_lens |->
                            Append(acc.subquery_lens, prompt_len - computed_len)]

RECURSIVE PromptLoop(_, _, _)
PromptLoop(list, i, acc) ==
    IF i > Len(list) THEN acc
    ELSE PromptLoop(list, i + 1, PromptStep(acc, list[i]))

_prepare_prompt(seq_group_metadata_list) ==
    IF ~(Len(seq_group_metadata_list) > 0) THEN AssertionError
    ELSE
      LET acc == PromptLoop(seq_group_metadata_list, 1,
                    [raised |-> FALSE, input_tokens |-> << >>,
                     input_positions |-> << >>, input_block_ids |-> << >>,
                     prompt_lens |-> << >>, context_lens |-> << >>,
                     subquery_lens |-> << >>])
      IN  IF acc.raised THEN acc
          ELSE
            LET max_prompt_len == MaxOf(acc.subquery_lens)
            IN  IF ~(max_prompt_len > 0) THEN AssertionError
                ELSE
                  LET input_tokens ==
                        _make_tensor_with_pad(acc.input_tokens, max_prompt_len, 0)
                      input_positions ==
                        _make_tensor_with_pad(acc.input_positions, max_prompt_len, 0)
                  IN  IF input_tokens.raised \/ input_positions.raised
                      THEN AssertionError
                      ELSE [raised |-> FALSE,
                            ret |-> [input_tokens |-> input_tokens.value,
                                     input_positions |-> input_positions.value,
                                     input_block_ids |-> acc.input_block_ids,
                                     prompt_lens |-> acc.prompt_lens,
                                     subquery_lens |-> acc.subquery_lens]]

\* ---------------------------------------------------------- _prepare_decode
\* context_len of one sequence (lines 139-140)
context_len(seq_len, window) ==
    IF window = None THEN seq_len ELSE MinOf2(seq_len, window[1])

\* Mutation: the position is the current length.
position_SeqLen(seq_len) == seq_len

\* position of the token a sequence decodes (line 136)
position(seq_len) == seq_len - 1

\* The inner loop over the sequences of one request (lines 130-146).
RECURSIVE DecodeSeqLoop(_, _, _, _)
DecodeSeqLoop(acc, m, j, window) ==
    IF acc.raised \/ j > Len(m.seq_data) THEN acc
    ELSE
      LET seq_data == m.seq_data[j]
          generation_token == get_last_token_id(seq_data)
          seq_len == get_len(seq_data)
      IN  IF m.block_tables = None THEN AssertionError
          ELSE LET block_table == m.block_tables[1][j]
               IN  IF ~SingleBlock(block_table) THEN AssertionError
                   ELSE DecodeSeqLoop(
                          [raised |-> FALSE,
                           input_tokens |->
                              Append(acc.input_tokens, <<generation_token>>),
                           input_positions |->
                              Append(acc.input_positions, <<position(seq_len)>>),
                           context_lens |->
                              Append(acc.context_lens, context_len(seq_len, window)),
                           input_block_ids |->
                              Append(acc.input_block_ids, block_table[1])],
                          m, j + 1, window)

\* One iteration of the outer loop (lines 125-146).
DecodeStep(acc, m, window) ==
    IF acc.raised THEN acc
    ELSE IF m.is_prompt THEN AssertionError
    ELSE DecodeSeqLoop(acc, m, 1, window)

RECURSIVE DecodeLoop(_, _, _, _)
DecodeLoop(list, i, acc, window) ==
    IF i > Len(list) THEN acc
    ELSE DecodeLoop(list, i + 1, DecodeStep(acc, list[i], window), window)

\* The tuple the function returns (line 165): context_lens is built (lines
\* 158-160) but is not an element of it.
DecodeReturn(input_tokens, input_positions, input_block_ids, context_lens) ==
    [input_tokens |-> input_tokens,
     input_positions |-> input_positions,
     input_block_ids |-> input_block_ids]

\* the empty lists of lines 120-123
DecodeInit ==
    [raised |-> FALSE, input_tokens |-> << >>, input_positions |-> << >>,
     context_lens |-> << >>, input_block_ids |-> << >>]

_prepare_decode(seq_group_metadata_list, window) ==
    IF ~(Len(seq_group_metadata_list) > 0) THEN AssertionError
    ELSE
      LET acc == DecodeLoop(seq_group_metadata_list, 1, DecodeInit, window)
      IN  IF acc.raised THEN acc
          ELSE
            LET input_tokens == _make_tensor_with_pad(acc.input_tokens, 1, 0)
                input_positions == _make_tensor_with_pad(acc.input_positions, 1, 0)
            IN  IF input_tokens.raised \/ input_positions.raised
                THEN AssertionError
                ELSE [raised |-> FALSE,
                      ret |-> DecodeReturn(input_tokens.value,
                                           input_positions.value,
                                           acc.input_block_ids,
                                           acc.context_lens)]

\* ---------------------------------------------------------- _prepare_sample
\* torch.Generator(device="cuda").manual_seed(seed): a NEW generator object.
\* Its identity is the owning request and a serial number one above that of
\* the object it replaces in the request's state.
Serial(g) == IF g = None THEN 0 ELSE g[2]

TorchGenerator(r, old, seed) == <<r, Serial(old) + 1, seed>>

\* seq_group_metadata.state.generator after lines 207-209
PromptGenerator(r, old, seed) ==
    IF seed # None THEN TorchGenerator(r, old, seed[1]) ELSE old

\* Mutation: with prompt_logprobs the last prompt position is left out.
PromptSelected_DropsLast(start, subquery_len, prompt_logprobs) ==
    IF prompt_logprobs # None
    THEN Range(start, start + subquery_len - 1)
    ELSE <<start + subquery_len - 1>>

\* selected_token_indices contributed by a prompt request (lines 199-204)
PromptSelected(start, subquery_len, prompt_logprobs) ==
    (IF prompt_logprobs # None
     THEN Range(start, start + subquery_len - 1) ELSE << >>)
    \o <<start + subquery_len - 1>>

\* Mutation: the cursor advances by the unpadded length.
PromptSelectedAdvance_Unpadded(start, subquery_len, max_subquery_len) ==
    start + subquery_len

\* selected_token_start_idx after a prompt request (line 205)
PromptSelectedAdvance(start, subquery_len, max_subquery_len) ==
    start + max_subquery_len

\* Mutation: the prompt-logprob positions are not skipped.
PromptCategorized_NoSkip(start, subquery_len, prompt_logprobs) == start

\* Mutation: the skip is made with or without prompt_logprobs.
PromptCategorized_AlwaysSkip(start, subquery_len, prompt_logprobs) ==
    start + subquery_len - 1

\* the bucket entry recorded for a prompt request (lines 190-196)
PromptCategorized(start, subquery_len, prompt_logprobs) ==
    IF prompt_logprobs # None THEN start + subquery_len - 1 ELSE start

\* Mutation: a decode request selects one row, whatever its sequences.
DecodeSelected_PerRequest(start, num_seqs) == <<start>>

\* selected_token_indices contributed by a decode request (lines 212-214)
DecodeSelected(start, num_seqs) == Range(start, start + num_seqs)

\* the bucket entries recorded for a decode request (lines 217-220)
DecodeCategorized(start, num_seqs) == Range(start, start + num_seqs)

\* Mutation: the handle is appended once per sequence.
AppendGenerator_PerSequence(generators, sp, g, num_seqs) ==
    IF sp.seed # None THEN generators \o Repeat(g, num_seqs) ELSE generators

\* generators after lines 223-224
AppendGenerator(generators, sp, g, num_seqs) ==
    IF sp.seed # None THEN Append(generators, g) ELSE generators

\* One iteration of the loop of _prepare_sample (lines 181-224); i is the
\* 0-based index of enumerate.
SampleStep(acc, m, i, subquery_lens, max_subquery_len) ==
    IF acc.raised THEN acc
    ELSE
      LET seq_ids == [j \in 1..Len(m.seq_data) |-> m.seq_data[j].seq_id]
          sp == m.sampling_params
          r == m.request_id
          seq_groups == Append(acc.seq_groups, <<seq_ids, sp>>)
          cat == acc.categorized_sample_indices
          cat_start == acc.categorized_sample_indices_start_idx
          sel_start == acc.selected_token_start_idx
      IN
        IF m.is_prompt THEN
          IF ~(Len(seq_ids) = 1) THEN AssertionError
          ELSE IF subquery_lens = None THEN AssertionError
          ELSE
            LET subquery_len == subquery_lens[1][i + 1]
                entry == PromptCategorized(cat_start, subquery_len,
                                           sp.prompt_logprobs)
                g == PromptGenerator(r, acc.generator[r], sp.seed)
            IN  [raised |-> FALSE,
                 seq_groups |-> seq_groups,
                 selected_token_indices |->
                    acc.selected_token_indices
                    \o PromptSelected(sel_start, subquery_len, sp.prompt_logprobs),
                 selected_token_start_idx |->
                    PromptSelectedAdvance(sel_start, subquery_len, max_subquery_len),
                 categorized_sample_indices |->
                    [cat EXCEPT ![sp.sampling_type] = Append(@, entry)],
                 categorized_sample_indices_start_idx |-> entry + 1,
                 generator |-> [acc.generator EXCEPT ![r] = g],
                 generators |-> AppendGenerator(acc.generators, sp, g, 1)]
        ELSE
          LET num_seqs == Len(seq_ids)
          IN  [raised |-> FALSE,
               seq_groups |-> seq_groups,
               selected_token_indices |->
                  acc.selected_token_indices
                  \o DecodeSelected(sel_start, num_seqs),
               selected_token_start_idx |-> sel_start + num_seqs,
               categorized_sample_indices |->
                  [cat EXCEPT ![sp.sampling_type] =
                      @ \o DecodeCategorized(cat_start, num_seqs)],
               categorized_sample_indices_start_idx |-> cat_start + num_seqs,
               generator |-> acc.generator,
               generators |->
                  AppendGenerator(acc.generators, sp, acc.generator[r], num_seqs)]

RECURSIVE SampleLoop(_, _, _, _, _)
SampleLoop(list, i, acc, subquery_lens, max_subquery_len) ==
    IF i >= Len(list) THEN acc
    ELSE SampleLoop(list, i + 1,
                    SampleStep(acc, list[i + 1], i, subquery_lens, max_subquery_len),
                    subquery_lens, max_subquery_len)

\* seq_data.update(...) over the list (lines 238-240)
RECURSIVE AllSeqData(_)
AllSeqData(list) ==
    IF Len(list) = 0 THEN << >> ELSE list[1].seq_data \o AllSeqData(Tail(list))

\* gen is the generator state of the requests on entry; the result carries
\* the SamplingMetadata and the generator state on exit.
_prepare_sample(seq_group_metadata_list, prompt_lens, subquery_lens, gen) ==
    LET max_subquery_len ==
          IF subquery_lens # None /\ Len(subquery_lens[1]) > 0
          THEN MaxOf(subquery_lens[1]) ELSE 1
        acc == SampleLoop(seq_group_metadata_list, 0,
                  [raised |-> FALSE,
                   seq_groups |-> << >>,
                   selected_token_indices |-> << >>,
                   selected_token_start_idx |-> 0,
                   categorized_sample_indices |-> [t \in SamplingTypes |-> << >>],
                   categorized_sample_indices_start_idx |-> 0,
                   generator |-> gen,
                   generators |-> << >>],
                  subquery_lens, max_subquery_len)
    IN  IF acc.raised THEN acc
        ELSE [raised |-> FALSE,
              generator |-> acc.generator,
              sampling_metadata |->
                [seq_groups |-> acc.seq_groups,
                 seq_data |-> AllSeqData(seq_group_metadata_list),
                 prompt_lens |-> prompt_lens,
                 selected_token_indices |-> _async_h2d(acc.selected_token_indices),
                 categorized_sample_indices |->
                    [t \in SamplingTypes |->
                        _async_h2d(acc.categorized_sample_indices[t])],
                 generators |-> acc.generators]]

\* ---------------------------------------------------- prepare_input_tensors
\* The result keeps, next to the returned tuple (ret), the tuple the batch
\* builder returned (prepared) and the generator state on exit.
prepare_input_tensors(seq_group_metadata_list, window, gen) ==
    IF Len(seq_group_metadata_list) = 0 THEN IndexError
    ELSE
      LET is_prompt == seq_group_metadata_list[1].is_prompt
          built == IF is_prompt
                   THEN _prepare_prompt(seq_group_metadata_list)
                   ELSE _prepare_decode(seq_group_metadata_list, window)
      IN  IF built.raised THEN built
          ELSE
            LET prompt_lens == IF is_prompt THEN built.ret.prompt_lens ELSE << >>
                subquery_lens ==
                    IF is_prompt THEN Some(built.ret.subquery_lens) ELSE None
                sampled == _prepare_sample(seq_group_metadata_list,
                                           prompt_lens, subquery_lens, gen)
            IN  IF sampled.raised THEN sampled
                ELSE [raised |-> FALSE,
                      prepared |-> built.ret,
                      generator |-> sampled.generator,
                      ret |-> [input_tokens |-> built.ret.input_tokens,
                               input_positions |-> built.ret.input_positions,
                               input_block_ids |-> built.ret.input_block_ids,
                               sampling_metadata |-> sampled.sampling_metadata]]

\* ------------------------------------------------- what the scheduler sends
\* Orders of distinct requests.
IdSeqs ==
    { s \in UNION { [1..k -> RequestIds] : k \in 1..Cardinality(RequestIds) } :
        \A a, b \in DOMAIN s : a # b => s[a] # s[b] }

PromptLens == 1..MaxLen

\* a decoding sequence holds its prompt and at least one generated token
DecodeLens == 2..MaxDecodeLen

\* Lists that honour the scheduler contract: all prompt or all decode, one
\* sequence and one block per prompt request, one block per sequence.  A
\* prompt holds at least one token: a sequence without tokens has no block,
\* so it cannot satisfy the one-block contract.  A request may be handed in
\* as a prompt more than once: after a preemption by recomputation the
\* scheduler runs its prompt step again, with the same request state.
PromptLists(params) ==
    UNION { { [i \in DOMAIN s |->
                 SequenceGroupMetadata(s[i], TRUE, 1, ls[i], Some(1), params[s[i]])] :
              ls \in [DOMAIN s -> PromptLens] } : s \in IdSeqs }

DecodeLists(params) ==
    UNION { { [i \in DOMAIN s |->
                 SequenceGroupMetadata(s[i], FALSE, ns[i], ls[i], Some(1),
                                       params[s[i]])] :
              ns \in [DOMAIN s -> 1..MaxSeqs], ls \in [DOMAIN s -> DecodeLens] } :
            s \in IdSeqs }

\* Lists that break the contract in one place: the request at position k of
\* an otherwise well-formed list (all requests of one shape) has a sequence
\* count other than one (prompt), a block table that is missing or holds a
\* number of blocks other than one, or the other phase than the rest.
FaultyLists(params) ==
    UNION { UNION { UNION {
      { [i \in DOMAIN s |->
           SequenceGroupMetadata(s[i], TRUE,
                                 IF i = k THEN n ELSE 1, len, Some(1),
                                 params[s[i]])] :
        n \in (0..MaxSeqs) \ {1} }
      \cup
      { [i \in DOMAIN s |->
           SequenceGroupMetadata(s[i], p, IF p THEN 1 ELSE n, len,
                                 IF i = k THEN b ELSE Some(1),
                                 params[s[i]])] :
        p \in BOOLEAN, n \in 1..MaxSeqs, b \in {None, Some(0), Some(2)} }
      \cup
      { [i \in DOMAIN s |->
           SequenceGroupMetadata(s[i], IF i = k THEN ~p ELSE p, 1, len, Some(1),
                                 params[s[i]])] :
        p \in { q \in BOOLEAN : Len(s) > 1 } }
      : k \in DOMAIN s } : len \in DecodeLens } : s \in IdSeqs }

\* the number of generator objects created so far
RECURSIVE CreatedIn(_, _)
CreatedIn(gen, ids) ==
    IF ids = {} THEN 0
    ELSE LET r == CHOOSE x \in ids : TRUE
         IN  Serial(gen[r]) + CreatedIn(gen, ids \ {r})

Created(gen) == CreatedIn(gen, RequestIds)

\* A decode step of a seeded request follows its prompt step.
Scheduled(list, gen) ==
    \A i \in DOMAIN list :
        (~list[i].is_prompt /\ list[i].sampling_params.seed # None)
            => gen[list[i].request_id] # None

\* ---------------------------------------------------------------- actions
Init ==
    /\ sliding_window \in {None, Some(2)}
    /\ sampling_params \in [RequestIds -> ValidSamplingParams]
    /\ generator = [r \in RequestIds |-> None]
    /\ call = Idle
    /\ result = NoResult

\* execute_model up to the return of prepare_input_tensors (lines 280-281)
ExecuteModel(list) ==
    /\ call = Idle
    /\ Scheduled(list, generator)
    /\ \E res \in {prepare_input_tensors(list, sliding_window, generator)} :
           /\ call' = [fn |-> "execute_model", seq_group_metadata_list |-> list]
           /\ IF res.raised
              THEN /\ result' = [status |-> "raised", error |-> res.error]
                   /\ generator' = generator
              ELSE /\ Created(res.generator) <= MaxGen
                   /\ result' = [status |-> "returned",
                                 prepared |-> res.prepared,
                                 ret |-> res.ret]
                   /\ generator' = res.generator
    /\ UNCHANGED <<sliding_window, sampling_params>>

\* the rest of execute_model: forward pass and sampling, then return
\* (lines 283-294); the locals are dropped
ModelAndSample ==
    /\ call.fn = "execute_model"
    /\ result.status = "returned"
    /\ call' = Idle
    /\ result' = NoResult
    /\ UNCHANGED <<sliding_window, sampling_params, generator>>

\* a direct call of the module-level helper
PadToMax(x, max_len, pad) ==
    /\ call = Idle
    /\ LET res == _pad_to_max(x, max_len, pad)
       IN  /\ call' = [fn |-> "_pad_to_max", x |-> x, max_len |-> max_len,
                       pad |-> pad]
           /\ result' = IF res.raised
                        THEN [status |-> "raised", error |-> res.error]
                        ELSE [status |-> "returned", ret |-> res.value]
    /\ UNCHANGED <<sliding_window, sampling_params, generator>>

PadReturn ==
    /\ call.fn = "_pad_to_max"
    /\ result.status = "returned"
    /\ call' = Idle
    /\ result' = NoResult
    /\ UNCHANGED <<sliding_window, sampling_params, generator>>

\* an exception leaves the call; nothing of it is kept
Unwind ==
    /\ result.status = "raised"
    /\ call' = Idle
    /\ result' = NoResult
    /\ UNCHANGED <<sliding_window, sampling_params, generator>>

PadInputs == { [p \in 1..len |-> TokenId(1, 1, p)] : len \in 0..MaxLen }

Next ==
    \/ call = Idle /\ \E list \in PromptLists(sampling_params) : ExecuteModel(list)
    \/ call = Idle /\ \E list \in DecodeLists(sampling_params) : ExecuteModel(list)
    \/ call = Idle /\ \E list \in FaultyLists(sampling_params) \cup {<< >>} :
                        ExecuteModel(list)
    \/ ModelAndSample
    \/ call = Idle /\ \E x \in PadInputs, max_len \in 0..MaxLen :
                        PadToMax(x, max_len, 0)
    \/ PadReturn
    \/ Unwind

Spec == Init /\ [][Next]_vars

\* ------------------------------------------------------------ properties
\* The list handed to the call in progress, and what the call returned.
Batch == call.seq_group_metadata_list

Returned == call.fn = "execute_model" /\ result.status = "returned"

PromptBatch == Returned /\ Batch[1].is_prompt

DecodeBatch == Returned /\ ~Batch[1].is_prompt

Selected == result.ret.sampling_metadata.selected_token_indices

Buckets == result.ret.sampling_metadata.categorized_sample_indices

Generators == result.ret.sampling_metadata.generators

RECURSIVE ConcatAll(_)
ConcatAll(ss) == IF Len(ss) = 0 THEN << >> ELSE ss[1] \o ConcatAll(Tail(ss))

RECURSIVE SumSeq(_)
SumSeq(ns) == IF Len(ns) = 0 THEN 0 ELSE ns[1] + SumSeq(Tail(ns))

Elems(q) == { q[k] : k \in DOMAIN q }

\* Request i is the i-th element of Batch (1-based); its 0-based index is i-1.
SubqueryLenOf(i) == Len(Batch[i].seq_data[1].token_ids)

LogprobsSet(i) == Batch[i].sampling_params.prompt_logprobs # None

Seeded(i) == Batch[i].sampling_params.seed # None

TypeOf(i) == Batch[i].sampling_params.sampling_type

NumSeqs(i) == Len(Batch[i].seq_data)

\* the padded width M of a prompt batch
PaddedWidth ==
    CHOOSE m \in { SubqueryLenOf(i) : i \in DOMAIN Batch } :
        \A i \in DOMAIN Batch : SubqueryLenOf(i) <= m

TotalSeqs == SumSeq([i \in DOMAIN Batch |-> NumSeqs(i)])

\* the first flattened row of decode request i
RowOffset(i) == SumSeq([j \in 1..(i - 1) |-> NumSeqs(j)])

Ascending(from, n) == [k \in 1..n |-> from + k - 1]

\* the last prompt position of prompt request i in the padded output
LastPromptPosition(i) == (i - 1) * PaddedWidth + SubqueryLenOf(i) - 1

\* C1: in a prefill batch of padded width M, request i (0-based, subquery
\* length s_i) contributes to selected_token_indices the single index
\* i*M + s_i - 1 without prompt_logprobs and the ascending indices
\* i*M .. i*M + s_i - 1 with prompt_logprobs, in request order; prompt
\* lengths 3 and 5 without prompt_logprobs give [2, 9].
C1_PrefillSelected ==
    PromptBatch =>
      /\ Selected =
           ConcatAll([i \in DOMAIN Batch |->
              IF LogprobsSet(i)
              THEN Ascending((i - 1) * PaddedWidth, SubqueryLenOf(i))
              ELSE <<LastPromptPosition(i)>>])
      /\ ( /\ Len(Batch) = 2
           /\ SubqueryLenOf(1) = 3 /\ SubqueryLenOf(2) = 5
           /\ ~LogprobsSet(1) /\ ~LogprobsSet(2) )
         => Selected = <<2, 9>>

C1_Witness ==
    /\ PromptBatch
    /\ Len(Batch) = 2
    /\ SubqueryLenOf(1) = 3 /\ SubqueryLenOf(2) = 5
    /\ LogprobsSet(1) /\ ~LogprobsSet(2)
    /\ Selected = <<0, 1, 2, 9>>

\* what request i adds to selected_token_indices
Contribution(i) ==
    IF Batch[i].is_prompt
    THEN (IF LogprobsSet(i) THEN SubqueryLenOf(i) ELSE 1)
    ELSE NumSeqs(i)

\* C2 as stated: after every call on a valid batch len(selected_token_indices)
\* is at least the number of requests and equals it whenever no request sets
\* prompt_logprobs; a prefill request with prompt_logprobs contributes
\* subqueryLen indices.
C2_Original ==
    Returned =>
      /\ Len(Selected) >= Len(Batch)
      /\ (\A i \in DOMAIN Batch : ~LogprobsSet(i)) => Len(Selected) = Len(Batch)
      /\ PromptBatch =>
           Len(Selected) = SumSeq([i \in DOMAIN Batch |-> Contribution(i)])

\* C2 amended: len(selected_token_indices) is at least the number of
\* requests; a prefill request contributes subqueryLen indices with
\* prompt_logprobs and one without, a decode request one per sequence; so
\* without prompt_logprobs on any prefill request the length is the number
\* of sequences of the batch, which is the number of requests only if every
\* request holds one sequence.
C2_SelectedLength ==
    Returned =>
      /\ Len(Selected) >= Len(Batch)
      /\ Len(Selected) = SumSeq([i \in DOMAIN Batch |-> Contribution(i)])
      /\ (\A i \in DOMAIN Batch : Batch[i].is_prompt => ~LogprobsSet(i))
            => Len(Selected) = TotalSeqs
      /\ ( /\ \A i \in DOMAIN Batch : Batch[i].is_prompt => ~LogprobsSet(i)
           /\ \A i \in DOMAIN Batch : NumSeqs(i) = 1 )
            => Len(Selected) = Len(Batch)

C2_Witness ==
    /\ DecodeBatch
    /\ Len(Batch) = 2
    /\ NumSeqs(1) = 2 /\ NumSeqs(2) = 1
    /\ ~LogprobsSet(1) /\ ~LogprobsSet(2)
    /\ Len(Selected) = 3

\* rows of the flattened model output: rows times width of the token tensor
Rows == Len(result.ret.input_tokens) * Len(result.ret.input_tokens[1])

BucketUnion == UNION { Elems(Buckets[t]) : t \in SamplingTypes }

BucketEntries == SumSeq([k \in 1..Len(SamplingType) |-> Len(Buckets[SamplingType[k]])])

\* the flattened output positions that need a next-token decision
DecisionPositions ==
    IF Batch[1].is_prompt
    THEN { LastPromptPosition(i) : i \in DOMAIN Batch }
    ELSE { n - 1 : n \in 1..TotalSeqs }

\* C3 as stated: the bucket entries are pairwise distinct, lie in [0, rows),
\* and their union IS the set of flattened positions that need a next-token
\* decision, a subset of the values of selected_token_indices.
C3_Original ==
    Returned =>
      /\ Cardinality(BucketUnion) = BucketEntries
      /\ \A k \in BucketUnion : 0 <= k /\ k < Rows
      /\ BucketUnion = DecisionPositions
      /\ BucketUnion \subseteq Elems(Selected)

\* C3 amended: the bucket entries are pairwise distinct, lie in [0, rows),
\* and are positions of selected_token_indices: the values that
\* selected_token_indices holds at the bucket entries are exactly the
\* flattened positions that need a next-token decision, one entry each, so
\* no entry points at a prompt-logprob-only position.
C3_Buckets ==
    Returned =>
      /\ Cardinality(BucketUnion) = BucketEntries
      /\ \A k \in BucketUnion : 0 <= k /\ k < Rows /\ k < Len(Selected)
      /\ { Selected[k + 1] : k \in BucketUnion } = DecisionPositions
      /\ Cardinality(BucketUnion) = Cardinality(DecisionPositions)
      /\ DecisionPositions \subseteq Elems(Selected)

C3_Witness ==
    /\ PromptBatch
    /\ Len(Batch) = 2
    /\ SubqueryLenOf(1) = 2 /\ SubqueryLenOf(2) = 3
    /\ ~LogprobsSet(1) /\ LogprobsSet(2)
    /\ TypeOf(1) # TypeOf(2)
    /\ BucketUnion = {0, 3}
    /\ Selected = <<1, 3, 4, 5>>

\* C4: the generator handle in a seeded request's state is written at most
\* once: once present it is never replaced by a later prefill or decode
\* invocation on that request.
C4_CreateOnce ==
    [][\A r \in RequestIds : generator[r] # None => generator'[r] = generator[r]]_vars

RECURSIVE SeededHandles(_, _)
SeededHandles(list, gen) ==
    IF Len(list) = 0 THEN << >>
    ELSE (IF list[1].sampling_params.seed # None
          THEN <<gen[list[1].request_id]>> ELSE << >>)
         \o SeededHandles(Tail(list), gen)

\* C5: the generators list holds exactly one handle per seeded request of
\* the batch, the one in that request's state, in batch order, and nothing
\* for unseeded requests or for further sequences of a seeded request.
C5_Generators ==
    Returned =>
      /\ Generators = SeededHandles(Batch, generator)
      /\ Len(Generators) = Cardinality({ i \in DOMAIN Batch : Seeded(i) })
      /\ \A k \in DOMAIN Generators : Generators[k] # None

C5_Witness ==
    /\ DecodeBatch
    /\ Len(Batch) = 2
    /\ Seeded(1) /\ NumSeqs(1) = 2
    /\ ~Seeded(2)
    /\ Len(Generators) = 1
    /\ Generators[1][1] = Batch[1].request_id

\* C6: a decode batch with N sequences gets N rows, one per sequence in
\* request order then sequence order; selected_token_indices is 0..N-1; the
\* sequences of a request are a contiguous ascending run of it and of the
\* bucket of the request's strategy.
C6_DecodeRows ==
    DecodeBatch =>
      /\ Len(result.prepared.input_tokens) = TotalSeqs
      /\ result.prepared.input_tokens =
           ConcatAll([i \in DOMAIN Batch |->
              [j \in 1..NumSeqs(i) |->
                 <<Batch[i].seq_data[j].token_ids[Len(Batch[i].seq_data[j].token_ids)]>>]])
      /\ Selected = Ascending(0, TotalSeqs)
      /\ \A i \in DOMAIN Batch :
           SubSeq(Selected, RowOffset(i) + 1, RowOffset(i) + NumSeqs(i))
             = Ascending(RowOffset(i), NumSeqs(i))
      /\ \A t \in SamplingTypes :
           Buckets[t] =
             ConcatAll([i \in DOMAIN Batch |->
                IF TypeOf(i) = t THEN Ascending(RowOffset(i), NumSeqs(i))
                ELSE << >>])

C6_Witness ==
    /\ DecodeBatch
    /\ Len(Batch) = 2
    /\ NumSeqs(1) = 1 /\ NumSeqs(2) = 2
    /\ TypeOf(1) = "RANDOM" /\ TypeOf(2) = "GREEDY"
    /\ Selected = <<0, 1, 2>>
    /\ Buckets["GREEDY"] = <<1, 2>>

\* one row per sequence: last token id, and current length - 1
DecodeRowsAsStated ==
    /\ result.prepared.input_tokens =
         ConcatAll([i \in DOMAIN Batch |->
            [j \in 1..NumSeqs(i) |->
               <<Batch[i].seq_data[j].token_ids[Len(Batch[i].seq_data[j].token_ids)]>>]])
    /\ result.prepared.input_positions =
         ConcatAll([i \in DOMAIN Batch |->
            [j \in 1..NumSeqs(i) |-> <<Len(Batch[i].seq_data[j].token_ids) - 1>>]])

\* the context length of every sequence, clipped to the sliding window
ClippedLengths ==
    ConcatAll([i \in DOMAIN Batch |->
       [j \in 1..NumSeqs(i) |->
          LET n == Len(Batch[i].seq_data[j].token_ids)
          IN  IF sliding_window = None THEN n
              ELSE IF n < sliding_window[1] THEN n ELSE sliding_window[1]]])

C8_PromptRows ==
    PromptBatch =>
      /\ Len(result.prepared.input_tokens) = Len(Batch)
      /\ Len(result.prepared.input_positions) = Len(Batch)
      /\ \A i \in DOMAIN Batch :
           LET toks == Batch[i].seq_data[1].token_ids
               row == result.prepared.input_tokens[i]
               pos == result.prepared.input_positions[i]
           IN  /\ Len(row) = PaddedWidth /\ Len(pos) = PaddedWidth
               /\ \A p \in 1..PaddedWidth :
                    /\ row[p] = IF p <= Len(toks) THEN toks[p] ELSE 0
                    /\ pos[p] = IF p <= Len(toks) THEN p - 1 ELSE 0
      /\ result.prepared.prompt_lens = [i \in DOMAIN Batch |-> SubqueryLenOf(i)]
      /\ result.prepared.subquery_lens = [i \in DOMAIN Batch |-> SubqueryLenOf(i)]

C8_Witness ==
    /\ PromptBatch
    /\ Len(Batch) = 2
    /\ SubqueryLenOf(1) = 2 /\ SubqueryLenOf(2) = 4
    /\ Len(result.prepared.input_tokens[1]) = 4
    /\ result.prepared.input_positions[1] = <<0, 1, 0, 0>>
    /\ Batch[1].seq_data[1].token_ids[2] # 0

\* C9: prepare_input_tensors fails, with no tensors and no SamplingMetadata,
\* on an empty batch, on a prefill request whose number of sequences is not
\* one and on a prefill request's sequence whose number of blocks is not
\* one; _pad_to_max fails on a row longer than the target length and never
\* shortens a row.
C9_FatalFailures ==
    /\ call.fn = "execute_model" =>
         /\ ( \/ Len(Batch) = 0
              \/ \E i \in DOMAIN Batch :
                   /\ Batch[i].is_prompt
                   /\ \/ Len(Batch[i].seq_data) # 1
                      \/ /\ Batch[i].block_tables # None
                         /\ \E j \in DOMAIN Batch[i].block_tables[1] :
                              Len(Batch[i].block_tables[1][j]) # 1 )
              => result.status = "raised"
         /\ result.status = "raised" => DOMAIN result = {"status", "error"}
    /\ call.fn = "_pad_to_max" =>
         /\ Len(call.x) > call.max_len => result.status = "raised"
         /\ result.status = "raised" => DOMAIN result = {"status", "error"}
         /\ result.status = "returned" =>
              /\ Len(result.ret) = call.max_len
              /\ SubSeq(result.ret, 1, Len(call.x)) = call.x

C9_Witness ==
    /\ call.fn = "execute_model"
    /\ Len(Batch) = 2
    /\ Batch[1].is_prompt /\ Batch[2].is_prompt
    /\ Len(Batch[1].seq_data) = 1
    /\ Batch[2].block_tables # None
    /\ Len(Batch[2].seq_data) = 1
    /\ Len(Batch[2].block_tables[1][1]) = 2
    /\ result.status = "raised"

\* the bucket entry recorded for prompt request i: entries of a bucket are
\* in request order
RankInBucket(i) == Cardinality({ j \in 1..i : TypeOf(j) = TypeOf(i) })

\* C10: the bucket entries are positions of selected_token_indices: every
\* entry k has 0 <= k < len(selected_token_indices); the entry k recorded
\* for prefill request i has selected_token_indices[k] = i*M + s_i - 1,
\* with or without prompt_logprobs; a decode entry k has
\* selected_token_indices[k] = k.
C10_BucketsIndexSelected ==
    Returned =>
      /\ \A k \in BucketUnion : 0 <= k /\ k < Len(Selected)
      /\ PromptBatch =>
           /\ BucketEntries = Len(Batch)
           /\ \A i \in DOMAIN Batch :
                /\ RankInBucket(i) <= Len(Buckets[TypeOf(i)])
                /\ Selected[Buckets[TypeOf(i)][RankInBucket(i)] + 1]
                     = LastPromptPosition(i)
      /\ DecodeBatch =>
           /\ BucketEntries = TotalSeqs
           /\ \A k \in BucketUnion : Selected[k + 1] = k

C10_Witness ==
    /\ PromptBatch
    /\ Len(Batch) = 1
    /\ SubqueryLenOf(1) = 4
    /\ ~LogprobsSet(1)
    /\ Buckets[TypeOf(1)] = <<0>>
    /\ Selected = <<3>>

====
